---- MODULE Spec2Model ----
(***************************************************************************)
(* Model of jupyter_client's kernel launcher (jupyter_client/launcher.py)  *)
(* and of the provisioner lifecycle exercised by tests/test_provisioning.  *)
(*                                                                         *)
(* Python values are encoded as follows:                                   *)
(*   - the stream arguments stdin/stdout/stderr are the strings "None",    *)
(*     "PIPE" (subprocess.PIPE) and "file" (a caller-owned file object);   *)
(*   - a dict is a function whose DOMAIN is the set of its keys;           *)
(*   - an Optional[int] return value is <<>> (None) or <<n>>;              *)
(*   - an object reference that may be None (process, pid, pgid, the       *)
(*     interrupt event) is a positive number, or None.                     *)
(***************************************************************************)
EXTENDS Integers, Sequences, FiniteSets, TLC

VARIABLES
    platform,       \* sys.platform: "posix" or "win32"
    pythonw,        \* sys.executable.endswith('pythonw.exe')
    parent_pid,     \* os.getpid() of the launching process
    os_environ,     \* os.environ of the launching process
    user_env,       \* the one mapping a caller may pass as env= (mutable, by reference)
    next_handle,    \* next free OS handle number (win32 events / duplicated handles)
    procs,          \* the children spawned so far: Popen object and OS child, by handle
    log,            \* number of records get_logger().error() has been given
    ncalls,         \* launcher calls made so far (successful or not)
    process,        \* CustomTestProvisioner.process
    pid,            \* CustomTestProvisioner.pid
    pgid,           \* CustomTestProvisioner.pgid
    config_var_1,   \* CustomTestProvisioner.config_var_1
    config_var_2,   \* CustomTestProvisioner.config_var_2
    parent,         \* CustomTestProvisioner.parent is a kernel manager (not None)
    launch_args,    \* km._launch_args
    connection_info,\* CustomTestProvisioner.connection_info
    waitpc,         \* position of each task running wait(): "idle" or "sleeping"
    provisioners,   \* KernelProvisionerFactory: the cache, name -> constructor
    discovered,     \* KernelProvisionerFactory: the discovery pass has run
    default_provisioner_name, \* KernelProvisionerFactory.default_provisioner_name
    registered,     \* names the entry-point mechanism resolves at this moment
    instances,      \* the provisioner instances created so far
    ndiscover,      \* KernelProvisionerFactory: discovery passes run so far
    init_guard,     \* KernelProvisionerFactory: holder of the single-initialization guard
    fpc,            \* position of each task on its way into the factory
    km_pc,          \* position of the kernel manager that drives the provisioner
    last            \* the operation that ran last: its inputs and its outcome

launcher_vars == <<platform, pythonw, parent_pid, os_environ, user_env, next_handle,
                   procs, log, ncalls>>
prov_vars == <<process, pid, pgid, config_var_1, config_var_2, parent, launch_args,
               connection_info, waitpc>>
factory_vars == <<provisioners, discovered, default_provisioner_name, registered,
                  instances, ndiscover, init_guard, fpc>>
manager_vars == <<km_pc>>
vars == <<launcher_vars, prov_vars, factory_vars, manager_vars, last>>

(***************************************************************************)
(* Bounds                                                                  *)
(***************************************************************************)
\* launcher calls (launch_kernel / async_launch_kernel) in one behaviour
MaxLaunch == 2

\* provisioner instances the factory creates in one behaviour
MaxInstances == 2

(***************************************************************************)
(* Python helpers                                                          *)
(***************************************************************************)
None == 0

EmptyDict == <<>>

\* d[k] = v
SetItem(d, k, v) == [x \in (DOMAIN d) \cup {k} |-> IF x = k THEN v ELSE d[x]]

\* d.pop(k): the dict without k
DelItem(d, k) == [x \in (DOMAIN d) \ {k} |-> d[x]]

\* d.get(k, default)
Get(d, k, default) == IF k \in DOMAIN d THEN d[k] ELSE default

\* d.update(e)
Update(d, e) == [x \in (DOMAIN d) \cup (DOMAIN e) |-> IF x \in DOMAIN e THEN e[x] ELSE d[x]]

\* a | b for a single-bit b
BitOr(a, b) == IF (a \div b) % 2 = 1 THEN a ELSE a + b

(***************************************************************************)
(* Program constants                                                       *)
(***************************************************************************)
CREATE_NEW_PROCESS_GROUP == 512

CREATE_NO_WINDOW == 134217728

\* os.defpath
defpath == "/bin:/usr/bin"

\* os.path.expanduser on the arguments used here
expanduser(s) == IF s = "~/kernel" THEN "/home/user/kernel" ELSE s

(***************************************************************************)
(* jupyter_client/launcher.py                                              *)
(***************************************************************************)

\* prepare_process_args: the Popen keyword arguments, the interrupt event, and
\* the side effects on the handle table and on the mapping `env` refers to.
\* `env` is "None" or "user" (a reference to the caller's mapping user_env).
prepare_process_args(stdin, stdout, stderr, env, independent, cwd, kw) ==
    LET _stdin == IF stdin = "None" THEN "PIPE" ELSE stdin
        redirect_out == pythonw
        _stdout == IF redirect_out /\ stdout = "None" THEN "blackhole" ELSE stdout
        _stderr == IF redirect_out /\ stderr = "None" THEN "blackhole" ELSE stderr
        \* env = env if (env is not None) else os.environ.copy()
        env0 == IF env # "None" THEN user_env ELSE os_environ
        main_args == [stdin |-> _stdin, stdout |-> _stdout, stderr |-> _stderr, cwd |-> cwd]
        kwargs0 == Update(kw, main_args)
        \* win32 branch
        interrupt_event == next_handle
        envW1 == SetItem(env0, "JPY_INTERRUPT_EVENT", ToString(interrupt_event))
        envW2 == SetItem(envW1, "IPY_INTERRUPT_EVENT", envW1["JPY_INTERRUPT_EVENT"])
        handle == next_handle + 1
        envW3 == IF independent THEN envW2
                 ELSE SetItem(envW2, "JPY_PARENT_PID", ToString(handle))
        kwW1 == IF independent
                THEN SetItem(kwargs0, "creationflags", CREATE_NEW_PROCESS_GROUP)
                ELSE kwargs0
        kwW2 == IF redirect_out
                THEN SetItem(kwW1, "creationflags",
                             BitOr(Get(kwW1, "creationflags", 0), CREATE_NO_WINDOW))
                ELSE kwW1
        kwW3 == SetItem(kwW2, "close_fds", FALSE)
        \* POSIX branch
        kwP == SetItem(kwargs0, "start_new_session", TRUE)
        envP == IF ~independent
                THEN SetItem(env0, "JPY_PARENT_PID", ToString(parent_pid))
                ELSE env0
    IN  IF platform = "win32"
        THEN [kwargs |-> SetItem(kwW3, "env", envW3),
              interrupt_event |-> interrupt_event,
              parent_handle |-> IF independent THEN None ELSE handle,
              next_handle |-> IF independent THEN next_handle + 1 ELSE next_handle + 2,
              user_env |-> IF env # "None" THEN envW3 ELSE user_env]
        ELSE [kwargs |-> SetItem(kwP, "env", envP),
              interrupt_event |-> None,
              parent_handle |-> None,
              next_handle |-> next_handle,
              user_env |-> IF env # "None" THEN envP ELSE user_env]

\* Popen(cmd, **kwargs) on success: the new Popen object together with its child.
\* A stream attribute is a pipe end ("open") only where PIPE was requested.
Popen(cmd, kwargs) ==
    [state |-> "running",
     returncode |-> <<>>,
     stdin |-> IF kwargs["stdin"] = "PIPE" THEN "open" ELSE "None",
     stdout |-> IF kwargs["stdout"] = "PIPE" THEN "open" ELSE "None",
     stderr |-> IF kwargs["stderr"] = "PIPE" THEN "open" ELSE "None",
     win32_interrupt_event |-> None,
     reaped |-> FALSE]

\* asyncio.create_subprocess_exec(*cmd, **kwargs) on success: the new Process
\* object together with its child. Its stream attributes are stream objects where
\* PIPE was requested and None elsewhere.
create_subprocess_exec(cmd, kwargs) ==
    [state |-> "running",
     returncode |-> <<>>,
     stdin |-> IF kwargs["stdin"] = "PIPE" THEN "open" ELSE "None",
     stdout |-> IF kwargs["stdout"] = "PIPE" THEN "open" ELSE "None",
     stderr |-> IF kwargs["stderr"] = "PIPE" THEN "open" ELSE "None",
     win32_interrupt_event |-> None,
     reaped |-> FALSE]

\* finish_process_launch that leaves the substituted pipe open
finish_process_launch_no_close(subprocess, stdin, interrupt_event) ==
    IF platform = "win32"
    THEN [subprocess EXCEPT !.win32_interrupt_event = interrupt_event]
    ELSE subprocess

\* finish_process_launch(subprocess, stdin, interrupt_event)
finish_process_launch(subprocess, stdin, interrupt_event) ==
    LET s1 == IF platform = "win32"
              THEN [subprocess EXCEPT !.win32_interrupt_event = interrupt_event]
              ELSE subprocess
    IN  IF stdin = "None" THEN [s1 EXCEPT !.stdin = "closed"] ELSE s1

\* The diagnostic built in the except block: env is the caller's argument.
failure_message(cmd, env, kwargs) ==
    [cmd |-> cmd,
     PATH |-> Get(env, "PATH", defpath),
     kwargs |-> DelItem(kwargs, "env")]

\* The except block of launch_kernel. `env` is launch_kernel's own argument, which
\* prepare_process_args never rebinds: with env=None, env.get raises AttributeError
\* inside the handler, before the logger is reached, and replaces the spawn error.
on_spawn_failure(a, p, cmd) ==
    IF a.env = "None"
    THEN [outcome |-> "raise", exc |-> "AttributeError", logged |-> <<>>, proc |-> <<>>]
    ELSE [outcome |-> "raise", exc |-> "SpawnError",
          logged |-> <<failure_message(cmd, p.user_env, p.kwargs)>>, proc |-> <<>>]

\* launch_kernel(cmd, stdin, stdout, stderr, env, independent, cwd, **kw);
\* spawn_ok says whether Popen succeeds. The result names the outcome and the
\* effects; LauncherEffect applies them.
launch_kernel(a, spawn_ok) ==
    LET p == prepare_process_args(a.stdin, a.stdout, a.stderr, a.env,
                                  a.independent, a.cwd, a.kw)
        cmd == [i \in DOMAIN a.cmd |-> expanduser(a.cmd[i])]
        base == [kwargs |-> p.kwargs, interrupt_event |-> p.interrupt_event,
                 parent_handle |-> p.parent_handle,
                 next_handle |-> p.next_handle, user_env |-> p.user_env, cmd |-> cmd]
    IN  IF spawn_ok
        THEN base @@ [outcome |-> "return", exc |-> "none", logged |-> <<>>,
                      proc |-> <<finish_process_launch(Popen(cmd, p.kwargs), a.stdin,
                                                       p.interrupt_event)>>]
        ELSE base @@ on_spawn_failure(a, p, cmd)

\* an except block that re-raises without telling the logger
async_on_spawn_failure_silent(a, p, cmd) ==
    IF a.env = "None"
    THEN [outcome |-> "raise", exc |-> "AttributeError", logged |-> <<>>, proc |-> <<>>]
    ELSE [outcome |-> "raise", exc |-> "SpawnError", logged |-> <<>>, proc |-> <<>>]

\* The except block of async_launch_kernel
async_on_spawn_failure(a, p, cmd) ==
    IF a.env = "None"
    THEN [outcome |-> "raise", exc |-> "AttributeError", logged |-> <<>>, proc |-> <<>>]
    ELSE [outcome |-> "raise", exc |-> "SpawnError",
          logged |-> <<failure_message(cmd, p.user_env, p.kwargs)>>, proc |-> <<>>]

\* async_launch_kernel: the same steps around asyncio.create_subprocess_exec
async_launch_kernel(a, spawn_ok) ==
    LET p == prepare_process_args(a.stdin, a.stdout, a.stderr, a.env,
                                  a.independent, a.cwd, a.kw)
        cmd == [i \in DOMAIN a.cmd |-> expanduser(a.cmd[i])]
        base == [kwargs |-> p.kwargs, interrupt_event |-> p.interrupt_event,
                 parent_handle |-> p.parent_handle,
                 next_handle |-> p.next_handle, user_env |-> p.user_env, cmd |-> cmd]
    IN  IF spawn_ok
        THEN base @@ [outcome |-> "return", exc |-> "none", logged |-> <<>>,
                      proc |-> <<finish_process_launch(
                                     create_subprocess_exec(cmd, p.kwargs), a.stdin,
                                     p.interrupt_event)>>]
        ELSE base @@ async_on_spawn_failure(a, p, cmd)

\* What a launcher call with result r leaves behind in the process and its OS.
LauncherEffect(r) ==
    /\ user_env' = r.user_env
    /\ next_handle' = r.next_handle
    /\ procs' = procs \o r.proc
    /\ log' = log + Len(r.logged)
    /\ ncalls' = ncalls + 1
    /\ UNCHANGED <<platform, pythonw, parent_pid, os_environ>>

(***************************************************************************)
(* Launcher calls made directly by a caller                                *)
(***************************************************************************)
Streams == {"None", "PIPE", "file"}

\* The launch specifications a caller passes
LaunchArgs ==
    [cmd : {<<"~/kernel", "-f">>},
     stdin : Streams,
     stdout : {"None", "PIPE"},
     stderr : {"None"},
     env : {"None", "user"},
     independent : BOOLEAN,
     cwd : {"None"},
     kw : {EmptyDict}]

\* launch_kernel called by a caller
SyncLaunch(a, spawn_ok) ==
    /\ ncalls < MaxLaunch
    /\ LET r == launch_kernel(a, spawn_ok)
       IN  /\ LauncherEffect(r)
           /\ last' = [op |-> "launch_kernel", args |-> a, res |-> r,
                       h |-> IF r.outcome = "return" THEN Len(procs) + 1 ELSE None]
    /\ UNCHANGED prov_vars
    /\ UNCHANGED factory_vars

\* async_launch_kernel awaited by a caller
AsyncLaunch(a, spawn_ok) ==
    /\ ncalls < MaxLaunch
    /\ LET r == async_launch_kernel(a, spawn_ok)
       IN  /\ LauncherEffect(r)
           /\ last' = [op |-> "async_launch_kernel", args |-> a, res |-> r,
                       h |-> IF r.outcome = "return" THEN Len(procs) + 1 ELSE None]
    /\ UNCHANGED prov_vars
    /\ UNCHANGED factory_vars

(***************************************************************************)
(* The operating system and the subprocess library                         *)
(***************************************************************************)
\* Exit statuses a child ends with, as Popen reports them
ExitCodes == {0, 1}

\* Popen.pid of the h-th child
PidOf(h) == 100 + h

\* Popen.poll(): None while the child runs, then its exit status
Popen_poll(h) == procs[h].returncode

\* A running child ends with exit status c
ChildExit(h, c) ==
    /\ h \in DOMAIN procs
    /\ procs[h].state = "running"
    /\ procs' = [procs EXCEPT ![h].state = "exited", ![h].returncode = <<c>>]
    /\ last' = [op |-> "child_exit", h |-> h]
    /\ UNCHANGED <<platform, pythonw, parent_pid, os_environ, user_env, next_handle,
                   log, ncalls>>
    /\ UNCHANGED prov_vars
    /\ UNCHANGED factory_vars

(***************************************************************************)
(* tests/test_provisioning.py: CustomTestProvisioner                       *)
(***************************************************************************)
\* has_process answered from the pid, which wait() never clears
has_process_by_pid == pid # None

\* has_process (property)
has_process == process # None

\* poll() that still answers for the process of self.pid once the handle is dropped
poll_remembering ==
    IF process # None
    THEN Popen_poll(process)
    ELSE IF pid # None /\ (pid - 100) \in DOMAIN procs
    THEN procs[pid - 100].returncode
    ELSE <<0>>

\* poll() that keeps its initial ret = 0 while the child is running
poll_default_zero ==
    IF process # None /\ Popen_poll(process) # <<>> THEN Popen_poll(process) ELSE <<0>>

\* poll(): 0 without a process, else what Popen.poll() says
poll == IF process # None THEN Popen_poll(process) ELSE <<0>>

Poll ==
    /\ last' = [op |-> "poll", held |-> process, ret |-> poll, exc |-> "none"]
    /\ UNCHANGED <<launcher_vars, prov_vars>>
    /\ UNCHANGED factory_vars

\* wait(), after the polling loop: process.wait(), then every open stream of the
\* Popen object is closed
wait_close(p) ==
    [p EXCEPT !.reaped = TRUE,
              !.stdout = IF @ # "None" THEN "closed" ELSE @,
              !.stderr = IF @ # "None" THEN "closed" ELSE @,
              !.stdin = IF @ # "None" THEN "closed" ELSE @]

\* wait() that forgets to drop the reference
wait_keep(p) == p

\* wait(): self.process = None
wait_clear(p) == None

\* wait() from the first statement after the loop to its return, run by task t
WaitFinish(t) ==
    /\ procs' = [procs EXCEPT ![process] = wait_close(@)]
    /\ process' = wait_clear(process)
    /\ waitpc' = [waitpc EXCEPT ![t] = "idle"]
    /\ last' = [op |-> "wait", task |-> t, held |-> process,
                ret |-> procs[process].returncode, exc |-> "none"]
    /\ UNCHANGED <<platform, pythonw, parent_pid, os_environ, user_env, next_handle,
                   log, ncalls>>
    /\ UNCHANGED <<pid, pgid, config_var_1, config_var_2, parent, launch_args,
                   connection_info>>
    /\ UNCHANGED factory_vars

\* wait() called by task t, up to its first suspension or its return
WaitStart(t) ==
    /\ waitpc[t] = "idle"
    /\ IF process = None
       THEN /\ last' = [op |-> "wait", task |-> t, held |-> process, ret |-> <<0>>,
                        exc |-> "none"]
            /\ UNCHANGED <<launcher_vars, prov_vars>>
       ELSE IF poll = <<>>
       THEN /\ waitpc' = [waitpc EXCEPT ![t] = "sleeping"]
            /\ last' = [op |-> "wait_sleep", task |-> t, held |-> process]
            /\ UNCHANGED launcher_vars
            /\ UNCHANGED <<process, pid, pgid, config_var_1, config_var_2, parent,
                           launch_args, connection_info>>
       ELSE WaitFinish(t)
    /\ UNCHANGED factory_vars

\* wait() resumed after asyncio.sleep(0.1): the next turn of the loop
WaitResume(t) ==
    /\ waitpc[t] = "sleeping"
    /\ IF process = None
       \* poll() gives 0, the loop ends, and self.process.wait() is called on None
       THEN /\ waitpc' = [waitpc EXCEPT ![t] = "idle"]
            /\ last' = [op |-> "wait", task |-> t, held |-> process, ret |-> <<>>,
                        exc |-> "AttributeError"]
            /\ UNCHANGED launcher_vars
            /\ UNCHANGED <<process, pid, pgid, config_var_1, config_var_2, parent,
                           launch_args, connection_info>>
       ELSE IF poll = <<>>
       THEN /\ last' = [op |-> "wait_sleep", task |-> t, held |-> process]
            /\ UNCHANGED <<launcher_vars, prov_vars>>
       ELSE WaitFinish(t)
    /\ UNCHANGED factory_vars

\* Discarding the waiting task also closes the held process's streams
WaitCancel_closing(t) ==
    /\ waitpc[t] = "sleeping"
    /\ waitpc' = [waitpc EXCEPT ![t] = "idle"]
    /\ procs' = IF process # None THEN [procs EXCEPT ![process] = wait_close(@)] ELSE procs
    /\ last' = [op |-> "wait_cancel", task |-> t, held |-> process]
    /\ UNCHANGED <<platform, pythonw, parent_pid, os_environ, user_env, next_handle,
                   log, ncalls>>
    /\ UNCHANGED <<process, pid, pgid, config_var_1, config_var_2, parent,
                   launch_args, connection_info>>
    /\ UNCHANGED factory_vars

\* The task awaiting wait() is discarded while it sleeps
WaitCancel(t) ==
    /\ waitpc[t] = "sleeping"
    /\ waitpc' = [waitpc EXCEPT ![t] = "idle"]
    /\ last' = [op |-> "wait_cancel", task |-> t, held |-> process]
    /\ UNCHANGED launcher_vars
    /\ UNCHANGED <<process, pid, pgid, config_var_1, config_var_2, parent,
                   launch_args, connection_info>>
    /\ UNCHANGED factory_vars

\* Popen.send_signal(sig) on child h (kill() and terminate() are send_signal with
\* SIGKILL and SIGTERM): nothing for a child that has exited; os_ok says whether
\* the OS accepts the delivery. `via` lists the deliveries attempted; what the
\* child does with a signal is its own business.
Popen_send_signal(h, sig, os_ok) ==
    IF procs[h].state # "running"
    THEN [exc |-> "none", via |-> <<>>]
    ELSE IF os_ok
    THEN [exc |-> "none",
          via |-> <<[how |-> "process", target |-> PidOf(h), sig |-> sig, ok |-> TRUE]>>]
    ELSE [exc |-> "OSError",
          via |-> <<[how |-> "process", target |-> PidOf(h), sig |-> sig, ok |-> FALSE]>>]

\* send_signal that signals the single process as well after the group
send_signal_both(signum, pg_ok, proc_ok) ==
    IF process = None
    THEN [exc |-> "none", via |-> <<>>]
    ELSE IF signum = "SIGINT" /\ platform = "win32"
    THEN [exc |-> "none",
          via |-> <<[how |-> "event", target |-> procs[process].win32_interrupt_event,
                     sig |-> signum, ok |-> TRUE]>>]
    ELSE LET tried == IF pgid # None /\ platform # "win32"
                      THEN <<[how |-> "killpg", target |-> pgid, sig |-> signum,
                              ok |-> pg_ok]>>
                      ELSE <<>>
             r == Popen_send_signal(process, signum, proc_ok)
         IN  [r EXCEPT !.via = tried \o @]

\* send_signal without the win32 interrupt branch
send_signal_native(signum, pg_ok, proc_ok) ==
    IF process = None
    THEN [exc |-> "none", via |-> <<>>]
    ELSE IF pgid # None /\ platform # "win32" /\ pg_ok
    THEN [exc |-> "none",
          via |-> <<[how |-> "killpg", target |-> pgid, sig |-> signum, ok |-> TRUE]>>]
    ELSE LET tried == IF pgid # None /\ platform # "win32"
                      THEN <<[how |-> "killpg", target |-> pgid, sig |-> signum,
                              ok |-> FALSE]>>
                      ELSE <<>>
             r == Popen_send_signal(process, signum, proc_ok)
         IN  [r EXCEPT !.via = tried \o @]

\* send_signal(signum): what is delivered, how, and what is raised. pg_ok and
\* proc_ok say whether os.killpg and the per-process delivery succeed.
send_signal(signum, pg_ok, proc_ok) ==
    IF process = None
    THEN [exc |-> "none", via |-> <<>>]
    ELSE IF signum = "SIGINT" /\ platform = "win32"
    THEN [exc |-> "none",
          via |-> <<[how |-> "event", target |-> procs[process].win32_interrupt_event,
                     sig |-> signum, ok |-> TRUE]>>]
    ELSE IF pgid # None /\ platform # "win32" /\ pg_ok
    THEN [exc |-> "none",
          via |-> <<[how |-> "killpg", target |-> pgid, sig |-> signum, ok |-> TRUE]>>]
    ELSE LET tried == IF pgid # None /\ platform # "win32"
                      THEN <<[how |-> "killpg", target |-> pgid, sig |-> signum,
                              ok |-> FALSE]>>
                      ELSE <<>>
             r == Popen_send_signal(process, signum, proc_ok)
         IN  [r EXCEPT !.via = tried \o @]

SendSignal(signum, pg_ok, proc_ok) ==
    /\ LET r == send_signal(signum, pg_ok, proc_ok)
       IN  last' = [op |-> "send_signal", signum |-> signum, held |-> process,
                    ret |-> <<>>, exc |-> r.exc, via |-> r.via]
    /\ UNCHANGED <<launcher_vars, prov_vars>>
    /\ UNCHANGED factory_vars

\* kill(restart) without its guard: self.process.kill() on None
kill_unguarded(restart, os_ok) ==
    IF process # None
    THEN Popen_send_signal(process, "SIGKILL", os_ok)
    ELSE [exc |-> "AttributeError", via |-> <<>>]

\* kill(restart)
kill(restart, os_ok) ==
    IF process # None
    THEN Popen_send_signal(process, "SIGKILL", os_ok)
    ELSE [exc |-> "none", via |-> <<>>]

Kill(restart, os_ok) ==
    /\ LET r == kill(restart, os_ok)
       IN  last' = [op |-> "kill", restart |-> restart, held |-> process,
                    ret |-> <<>>, exc |-> r.exc, via |-> r.via]
    /\ UNCHANGED <<launcher_vars, prov_vars>>
    /\ UNCHANGED factory_vars

\* terminate(restart)
terminate(restart, os_ok) ==
    IF process # None
    THEN Popen_send_signal(process, "SIGTERM", os_ok)
    ELSE [exc |-> "none", via |-> <<>>]

Terminate(restart, os_ok) ==
    /\ LET r == terminate(restart, os_ok)
       IN  last' = [op |-> "terminate", restart |-> restart, held |-> process,
                    ret |-> <<>>, exc |-> r.exc, via |-> r.via]
    /\ UNCHANGED <<launcher_vars, prov_vars>>
    /\ UNCHANGED factory_vars

\* cleanup(restart): pass
Cleanup(restart) ==
    /\ last' = [op |-> "cleanup", restart |-> restart, held |-> process, ret |-> <<>>,
                exc |-> "none"]
    /\ UNCHANGED <<launcher_vars, prov_vars>>
    /\ UNCHANGED factory_vars

\* km.format_kernel_cmd(extra_arguments=...)
format_kernel_cmd(extra_arguments) == <<"~/kernel", "-f">> \o extra_arguments

\* KernelProvisionerBase.pre_launch(cmd=..., **kwargs): the assembled arguments
base_pre_launch(cmd, kwargs) == SetItem(kwargs, "cmd", cmd)

\* the arguments saved only after extra_arguments has been popped
save_launch_args_popped(kwargs) == DelItem(kwargs, "extra_arguments")

\* km._launch_args = kwargs.copy()
save_launch_args(kwargs) == kwargs

\* pre_launch(**kwargs)
PreLaunch(kwargs) ==
    /\ IF parent
       THEN /\ launch_args' = save_launch_args(kwargs)
            /\ connection_info' = "connection_info"
            /\ last' = [op |-> "pre_launch", kwargs |-> kwargs, held |-> process,
                        exc |-> "none",
                        ret |-> base_pre_launch(
                                    format_kernel_cmd(Get(kwargs, "extra_arguments", <<>>)),
                                    DelItem(kwargs, "extra_arguments"))]
       ELSE /\ last' = [op |-> "pre_launch", kwargs |-> kwargs, held |-> process,
                        exc |-> "none", ret |-> EmptyDict]
            /\ UNCHANGED <<launch_args, connection_info>>
    /\ UNCHANGED launcher_vars
    /\ UNCHANGED <<process, pid, pgid, config_var_1, config_var_2, parent, waitpc>>
    /\ UNCHANGED factory_vars

\* The parameters of launcher.launch_kernel bound from cmd and **kwargs
LauncherParams == {"stdin", "stdout", "stderr", "env", "independent", "cwd"}

BindLaunchArgs(cmd, kwargs) ==
    [cmd |-> cmd,
     stdin |-> Get(kwargs, "stdin", "None"),
     stdout |-> Get(kwargs, "stdout", "None"),
     stderr |-> Get(kwargs, "stderr", "None"),
     env |-> Get(kwargs, "env", "None"),
     independent |-> Get(kwargs, "independent", FALSE),
     cwd |-> Get(kwargs, "cwd", "None"),
     kw |-> [k \in (DOMAIN kwargs) \ LauncherParams |-> kwargs[k]]]

\* os.getpgid(pid) of a child started in its own session
getpgid(n) == n

\* CustomTestProvisioner.launch_kernel(cmd, **kwargs); getpgid_ok says whether
\* os.getpgid succeeds
Provisioner_launch_kernel(cmd, kwargs, spawn_ok, getpgid_ok) ==
    /\ ncalls < MaxLaunch
    /\ LET r == launch_kernel(BindLaunchArgs(cmd, kwargs), spawn_ok)
           h == Len(procs) + 1
       IN  /\ LauncherEffect(r)
           /\ IF r.outcome = "return"
              THEN /\ process' = h
                   /\ pid' = PidOf(h)
                   /\ pgid' = IF platform # "win32" /\ getpgid_ok
                              THEN getpgid(PidOf(h)) ELSE None
                   /\ last' = [op |-> "provisioner.launch_kernel",
                               kwargs |-> kwargs, held |-> process,
                               ret |-> connection_info, exc |-> "none", res |-> r]
              ELSE /\ UNCHANGED <<process, pid, pgid>>
                   /\ last' = [op |-> "provisioner.launch_kernel",
                               kwargs |-> kwargs, held |-> process,
                               ret |-> "", exc |-> r.exc, res |-> r]
    /\ UNCHANGED <<config_var_1, config_var_2, parent, launch_args, connection_info,
                   waitpc>>
    /\ UNCHANGED factory_vars

(***************************************************************************)
(* tests/test_provisioning.py: the entry points the factory is given       *)
(***************************************************************************)
initial_provisioner_map ==
    [x \in {"local-provisioner", "subclassed-test-provisioner", "custom-test-provisioner"} |->
        CASE x = "local-provisioner" -> "jupyter_client.provisioning:LocalProvisioner"
          [] x = "subclassed-test-provisioner" -> "tests.test_provisioning:SubclassedTestProvisioner"
          [] x = "custom-test-provisioner" -> "tests.test_provisioning:CustomTestProvisioner"]

\* mock_get_all_provisioners(): the entry points the discovery pass enumerates
mock_get_all_provisioners == initial_provisioner_map

\* mock_get_provisioner(_, name): <<constructor>>, or <<>> for ValueError
mock_get_provisioner(name) ==
    IF name = "new-test-provisioner"
    THEN <<"tests.test_provisioning:NewTestProvisioner">>
    ELSE IF name \in DOMAIN initial_provisioner_map
    THEN <<initial_provisioner_map[name]>>
    ELSE <<>>

(***************************************************************************)
(* KernelProvisionerFactory                                                *)
(***************************************************************************)
\* The cache once the discovery pass has run (it runs on first use, once)
discover == IF discovered THEN provisioners ELSE mock_get_all_provisioners

\* A factory that never looks beyond its discovery cache
fresh_lookup_none(name) == <<>>

\* The one-off fresh lookup of a name the cache lacks: <<constructor>> or <<>>
fresh_lookup(name) == IF name \in registered THEN mock_get_provisioner(name) ELSE <<>>

\* The constructor `name` resolves to, cache first: <<constructor>> or <<>>
resolve(name) ==
    IF name \in DOMAIN discover THEN <<discover[name]>> ELSE fresh_lookup(name)

\* Discovery passes run once this call has made sure of the cache
discover_count == IF discovered THEN ndiscover ELSE ndiscover + 1

\* The configurable attributes an instance of ctor gets from config: LocalProvisioner
\* declares none; the test provisioners declare config_var_1 = Int(config=True)
\* and config_var_2 = Unicode(config=True), whose defaults are 0 and ""
config_attrs(ctor, config) ==
    IF ctor = "jupyter_client.provisioning:LocalProvisioner"
    THEN EmptyDict
    ELSE [config_var_1 |-> Get(config, "config_var_1", 0),
          config_var_2 |-> Get(config, "config_var_2", "")]

\* A factory that hands out one instance per constructor: the existing instance
\* of that constructor if there is one
instantiate_shared(ctor, config) ==
    IF \E i \in DOMAIN instances : instances[i].type = ctor
    THEN [instances |-> instances,
          ret |-> CHOOSE i \in DOMAIN instances : instances[i].type = ctor]
    ELSE [instances |-> Append(instances, [type |-> ctor, config |-> config,
                                           attrs |-> config_attrs(ctor, config)]),
          ret |-> Len(instances) + 1]

\* The constructor called with config: a new instance, and its identity
instantiate(ctor, config) ==
    [instances |-> Append(instances, [type |-> ctor, config |-> config,
                                      attrs |-> config_attrs(ctor, config)]),
     ret |-> Len(instances) + 1]

\* get_provisioner(name, config)
GetProvisioner(name, config) ==
    /\ Len(instances) < MaxInstances
    /\ discovered' = TRUE
    /\ IF resolve(name) # <<>>
       THEN LET r == instantiate(resolve(name)[1], config)
            IN  /\ provisioners' = SetItem(discover, name, resolve(name)[1])
                /\ instances' = r.instances
                /\ last' = [op |-> "get_provisioner", name |-> name, config |-> config,
                            ret |-> r.ret, exc |-> "none"]
       ELSE /\ provisioners' = discover
            /\ instances' = instances
            /\ last' = [op |-> "get_provisioner", name |-> name, config |-> config,
                        ret |-> None, exc |-> "NoSuchProvisioner"]
    /\ ndiscover' = discover_count
    /\ UNCHANGED <<default_provisioner_name, registered, init_guard, fpc>>
    /\ UNCHANGED <<launcher_vars, prov_vars>>

\* A provisioner plugin is registered with the entry-point mechanism after start
RegisterLate(name) ==
    /\ name \notin registered
    /\ mock_get_provisioner(name) # <<>>
    /\ registered' = registered \cup {name}
    /\ last' = [op |-> "register", name |-> name]
    /\ UNCHANGED <<provisioners, discovered, default_provisioner_name, instances,
                   ndiscover, init_guard, fpc>>
    /\ UNCHANGED <<launcher_vars, prov_vars>>

\* KernelProvisionerFactory.default_provisioner_name = name
SetDefaultName(name) ==
    /\ name # default_provisioner_name
    /\ default_provisioner_name' = name
    /\ last' = [op |-> "set_default_name", name |-> name]
    /\ UNCHANGED <<provisioners, discovered, registered, instances, ndiscover,
                   init_guard, fpc>>
    /\ UNCHANGED <<launcher_vars, prov_vars>>

(***************************************************************************)
(* KernelProvisionerFactory: first use by concurrent tasks                 *)
(***************************************************************************)
\* A guard that lets every task in
guard_ignored == TRUE

\* The single-initialization guard can be taken
guard_free == init_guard = "free"

\* Task t comes to use the factory: it goes on if the cache is populated, and
\* heads for the guard if not
Enter(t) ==
    /\ fpc[t] = "idle"
    /\ fpc' = [fpc EXCEPT ![t] = IF discovered THEN "ready" ELSE "waiting"]
    /\ last' = [op |-> "enter", task |-> t]
    /\ UNCHANGED <<provisioners, discovered, default_provisioner_name, registered,
                   instances, ndiscover, init_guard>>
    /\ UNCHANGED <<launcher_vars, prov_vars>>

\* Task t takes the guard
Acquire(t) ==
    /\ fpc[t] = "waiting"
    /\ guard_free
    /\ init_guard' = t
    /\ fpc' = [fpc EXCEPT ![t] = "locked"]
    /\ last' = [op |-> "acquire", task |-> t]
    /\ UNCHANGED <<provisioners, discovered, default_provisioner_name, registered,
                   instances, ndiscover>>
    /\ UNCHANGED <<launcher_vars, prov_vars>>

\* Holding the guard, task t looks again: another task may have populated the
\* cache meanwhile, and then t releases the guard and goes on
Recheck(t) ==
    /\ fpc[t] = "locked"
    /\ fpc' = [fpc EXCEPT ![t] = IF discovered THEN "ready" ELSE "populating"]
    /\ init_guard' = IF discovered THEN "free" ELSE init_guard
    /\ last' = [op |-> "recheck", task |-> t, found |-> discovered]
    /\ UNCHANGED <<provisioners, discovered, default_provisioner_name, registered,
                   instances, ndiscover>>
    /\ UNCHANGED <<launcher_vars, prov_vars>>

\* Task t runs the discovery pass and releases the guard
Populate(t) ==
    /\ fpc[t] = "populating"
    /\ provisioners' = mock_get_all_provisioners
    /\ discovered' = TRUE
    /\ ndiscover' = ndiscover + 1
    /\ init_guard' = "free"
    /\ fpc' = [fpc EXCEPT ![t] = "ready"]
    /\ last' = [op |-> "populate", task |-> t]
    /\ UNCHANGED <<default_provisioner_name, registered, instances>>
    /\ UNCHANGED <<launcher_vars, prov_vars>>

\* Task t, past the initialization, calls get_provisioner
Lookup(t, name, config) ==
    /\ fpc[t] = "ready"
    /\ GetProvisioner(name, config)

(***************************************************************************)
(* tests/test_provisioning.py: the kernel specs                            *)
(***************************************************************************)
\* build_kernelspec(name, provisioner): the kernel_provisioner block of the
\* kernel.json it writes; provisioner is <<>> (None) or <<provisioner name>>
build_kernelspec(name, provisioner) ==
    IF provisioner = <<>>
    THEN [provisioner_name |-> <<>>, config |-> EmptyDict]
    ELSE IF provisioner[1] = "local-provisioner"
    THEN [provisioner_name |-> provisioner, config |-> EmptyDict]
    ELSE [provisioner_name |-> provisioner,
          config |-> [config_var_1 |-> 42, config_var_2 |-> name]]

\* The kernel specs of the all_provisioners fixture, and new_provisioner()
KernelNames ==
    {"no_provisioner", "missing_provisioner", "default_provisioner",
     "subclassed_provisioner", "custom_provisioner", "new_provisioner"}

KernelSpecs ==
    [k \in KernelNames |->
        build_kernelspec(k,
            CASE k = "no_provisioner" -> <<>>
              [] k = "missing_provisioner" -> <<"missing-provisioner">>
              [] k = "default_provisioner" -> <<"local-provisioner">>
              [] k = "subclassed_provisioner" -> <<"subclassed-test-provisioner">>
              [] k = "custom_provisioner" -> <<"custom-test-provisioner">>
              [] k = "new_provisioner" -> <<"new-test-provisioner">>)]

(***************************************************************************)
(* The consumers of the factory: KernelSpecManager and the kernel manager  *)
(***************************************************************************)
\* A kernel spec without a provisioner block always gets the built-in default
provisioner_name_builtin(k) ==
    IF KernelSpecs[k].provisioner_name # <<>>
    THEN KernelSpecs[k].provisioner_name[1]
    ELSE "local-provisioner"

\* The provisioner name kernel spec k asks for: its own, else the factory's default
provisioner_name_of(k) ==
    IF KernelSpecs[k].provisioner_name # <<>>
    THEN KernelSpecs[k].provisioner_name[1]
    ELSE default_provisioner_name

\* The factory can resolve the provisioner of kernel spec k
is_provisioner_available(k) == resolve(provisioner_name_of(k)) # <<>>

\* The cache after the names in `names` have been looked up: the discovered
\* entries, and what the one-off fresh lookups found
cache_with(names) ==
    [n \in (DOMAIN discover) \cup {m \in names : fresh_lookup(m) # <<>>} |->
        IF n \in DOMAIN discover THEN discover[n] ELSE fresh_lookup(n)[1]]

\* get_kernel_spec that lets the factory's error through
get_kernel_spec_untranslated(k) ==
    IF is_provisioner_available(k)
    THEN [exc |-> "none", ret |-> <<KernelSpecs[k]>>]
    ELSE [exc |-> "NoSuchProvisioner", ret |-> <<>>]

\* KernelSpecManager.get_kernel_spec(k): the spec, or NoSuchKernel
get_kernel_spec(k) ==
    IF is_provisioner_available(k)
    THEN [exc |-> "none", ret |-> <<KernelSpecs[k]>>]
    ELSE [exc |-> "NoSuchKernel", ret |-> <<>>]

GetKernelSpec(k) ==
    /\ last' = [op |-> "get_kernel_spec", kernel |-> k, name |-> provisioner_name_of(k),
                exc |-> get_kernel_spec(k).exc, ret |-> get_kernel_spec(k).ret]
    /\ provisioners' = cache_with({provisioner_name_of(k)})
    /\ discovered' = TRUE
    /\ ndiscover' = discover_count
    /\ UNCHANGED <<default_provisioner_name, registered, instances, init_guard, fpc>>
    /\ UNCHANGED <<launcher_vars, prov_vars>>

\* KernelSpecManager.get_all_specs(): the specs that get_kernel_spec returns
GetAllSpecs ==
    /\ last' = [op |-> "get_all_specs", exc |-> "none",
                ret |-> {k \in KernelNames : get_kernel_spec(k).exc = "none"}]
    /\ provisioners' = cache_with({provisioner_name_of(k) : k \in KernelNames})
    /\ discovered' = TRUE
    /\ ndiscover' = discover_count
    /\ UNCHANGED <<default_provisioner_name, registered, instances, init_guard, fpc>>
    /\ UNCHANGED <<launcher_vars, prov_vars>>

\* The kernel manager's start_kernel for kernel spec k, up to the provisioner it
\* creates (pre_launch and launch_kernel on that provisioner come next); without
\* a kernel spec it stops before a provisioner exists
CreateProvisionerInstance(k) ==
    /\ Len(instances) < MaxInstances
    /\ IF get_kernel_spec(k).exc = "none"
       THEN LET r == instantiate(resolve(provisioner_name_of(k))[1], KernelSpecs[k].config)
            IN  /\ instances' = r.instances
                /\ last' = [op |-> "create_provisioner_instance", kernel |-> k,
                            name |-> provisioner_name_of(k), ret |-> r.ret,
                            exc |-> "none"]
       ELSE /\ instances' = instances
            /\ last' = [op |-> "create_provisioner_instance", kernel |-> k,
                        name |-> provisioner_name_of(k), ret |-> None,
                        exc |-> get_kernel_spec(k).exc]
    /\ provisioners' = cache_with({provisioner_name_of(k)})
    /\ discovered' = TRUE
    /\ ndiscover' = discover_count
    /\ UNCHANGED <<default_provisioner_name, registered, init_guard, fpc>>
    /\ UNCHANGED <<launcher_vars, prov_vars>>

(***************************************************************************)
(* The kernel manager driving its provisioner: start and restart           *)
(***************************************************************************)
\* start_kernel(**kwargs): pre_launch with the caller's keyword arguments
KmStartPreLaunch(kwargs) ==
    /\ km_pc = "new"
    /\ PreLaunch(kwargs)
    /\ km_pc' = "starting"

\* start_kernel, continued: launch_kernel with what pre_launch returned
KmStartLaunch(spawn_ok, getpgid_ok) ==
    /\ km_pc = "starting"
    /\ last.op = "pre_launch"
    /\ Provisioner_launch_kernel(last.ret["cmd"], DelItem(last.ret, "cmd"),
                                 spawn_ok, getpgid_ok)
    /\ km_pc' = IF last'.exc = "none" THEN "up" ELSE "failed"

\* is_alive() on a started kernel: poll
KmIsAlive ==
    /\ km_pc = "up"
    /\ Poll
    /\ UNCHANGED manager_vars

\* restart_kernel(now=True), first step: stop the current process
RestartStop(os_ok) ==
    /\ km_pc = "up"
    /\ Kill(TRUE, os_ok)
    /\ km_pc' = IF last'.exc = "none" THEN "r_await" ELSE "up"

\* restart, second step: await the exit (wait(), turn by turn of its loop)
RestartAwait(t) ==
    /\ km_pc = "r_await"
    /\ (WaitStart(t) \/ WaitResume(t))
    /\ km_pc' = IF last'.op = "wait" THEN "r_pre_launch" ELSE "r_await"

\* restart, third step: pre_launch with the saved arguments
RestartPreLaunch ==
    /\ km_pc = "r_pre_launch"
    /\ PreLaunch(launch_args)
    /\ km_pc' = "r_launch"

\* restart, last step: launch_kernel with what pre_launch returned
RestartLaunch(spawn_ok, getpgid_ok) ==
    /\ km_pc = "r_launch"
    /\ last.op = "pre_launch"
    /\ Provisioner_launch_kernel(last.ret["cmd"], DelItem(last.ret, "cmd"),
                                 spawn_ok, getpgid_ok)
    /\ km_pc' = IF last'.exc = "none" THEN "up" ELSE "failed"

(***************************************************************************)
(* Specifications                                                          *)
(***************************************************************************)
ParentPids == {4001, 4002}

\* The tasks that may run wait() on the provisioner: one task drives the lifecycle
\* operations of a kernel
Waiters == {"t1"}

Signums == {"SIGINT", "SIGTERM"}

\* The tasks (one per kernel being started) that use the factory
FactoryTasks == {"k1", "k2"}

\* Keyword arguments a kernel manager passes to pre_launch
PreLaunchKwargs ==
    {[stdout |-> "PIPE", stderr |-> "PIPE"],
     [stdout |-> "PIPE", stderr |-> "PIPE", extra_arguments |-> <<"--debug">>]}

\* Keyword arguments it passes on to launch_kernel
ProvLaunchKwargs ==
    {[stdout |-> "PIPE", stderr |-> "PIPE"],
     [env |-> "user"]}

ProvCmds == {format_kernel_cmd(<<"--debug">>)}

\* The launching process and a provisioner right after construction
InitState ==
    /\ platform \in {"posix", "win32"}
    /\ os_environ = [PATH |-> "/usr/local/bin"]
    /\ user_env = [PATH |-> "/opt/bin"]
    /\ next_handle = 1
    /\ procs = <<>>
    /\ log = 0
    /\ ncalls = 0
    /\ process = None
    /\ pid = None
    /\ pgid = None
    /\ launch_args = EmptyDict
    /\ connection_info = ""
    /\ waitpc = [t \in Waiters |-> "idle"]
    /\ provisioners = EmptyDict
    /\ discovered = FALSE
    /\ default_provisioner_name = "local-provisioner"
    /\ registered = DOMAIN initial_provisioner_map
    /\ instances = <<>>
    /\ ndiscover = 0
    /\ init_guard = "free"
    /\ fpc = [t \in FactoryTasks |-> "idle"]
    /\ km_pc = "new"
    /\ last = [op |-> "init"]

\* A provisioner built from the kernel spec's config, with or without a manager
Init ==
    /\ InitState
    /\ pythonw = FALSE
    /\ parent_pid = 4001
    /\ config_var_1 = 42
    /\ config_var_2 = "custom_provisioner"
    /\ parent = TRUE

\* The provisioner driven by its kernel manager, and the children's own exits
Next ==
    \/ \E kwargs \in PreLaunchKwargs : PreLaunch(kwargs) /\ UNCHANGED manager_vars
    \/ \E cmd \in ProvCmds, kwargs \in ProvLaunchKwargs, spawn_ok, getpgid_ok \in BOOLEAN :
          Provisioner_launch_kernel(cmd, kwargs, spawn_ok, getpgid_ok)
          /\ UNCHANGED manager_vars
    \/ Poll /\ UNCHANGED manager_vars
    \/ \E t \in Waiters : WaitStart(t) /\ UNCHANGED manager_vars
    \/ \E t \in Waiters : WaitResume(t) /\ UNCHANGED manager_vars
    \/ \E t \in Waiters : WaitCancel(t) /\ UNCHANGED manager_vars
    \/ \E signum \in Signums, pg_ok, proc_ok \in BOOLEAN :
          SendSignal(signum, pg_ok, proc_ok) /\ UNCHANGED manager_vars
    \/ \E restart, os_ok \in BOOLEAN : Kill(restart, os_ok) /\ UNCHANGED manager_vars
    \/ \E restart, os_ok \in BOOLEAN : Terminate(restart, os_ok) /\ UNCHANGED manager_vars
    \/ \E restart \in BOOLEAN : Cleanup(restart) /\ UNCHANGED manager_vars
    \/ \E h \in 1..MaxLaunch, c \in ExitCodes : ChildExit(h, c) /\ UNCHANGED manager_vars

Spec == Init /\ [][Next]_vars

\* Callers of the launcher alone
LauncherNext ==
    \/ \E a \in LaunchArgs, spawn_ok \in BOOLEAN :
          SyncLaunch(a, spawn_ok) /\ UNCHANGED manager_vars
    \/ \E a \in LaunchArgs, spawn_ok \in BOOLEAN :
          AsyncLaunch(a, spawn_ok) /\ UNCHANGED manager_vars

\* Any launching process; the provisioner is left as constructed
LauncherInit ==
    /\ InitState
    /\ pythonw \in (IF platform = "win32" THEN BOOLEAN ELSE {FALSE})
    /\ parent_pid \in ParentPids
    /\ config_var_1 = 0
    /\ config_var_2 = ""
    /\ parent = FALSE

LauncherSpec == LauncherInit /\ [][LauncherNext]_vars

(***************************************************************************)
(* Properties of the provisioner lifecycle (Spec)                          *)
(***************************************************************************)
\* The provisioner holds a handle that wait() has not reaped
Held == process \in DOMAIN procs /\ ~procs[process].reaped

NoProcessOps == {"poll", "wait", "send_signal", "kill", "terminate"}

\* C1: called on a provisioner that holds no process, poll and wait return 0,
\* send_signal, kill and terminate return None, none of them raises, and the
\* process reference, pid, pgid and the children are left as they were.
C1_NoProcessIsNoOp ==
    [][(process = None /\ last'.op \in NoProcessOps)
         => /\ last'.exc = "none"
            /\ last'.ret = (IF last'.op \in {"poll", "wait"} THEN <<0>> ELSE <<>>)
            /\ UNCHANGED <<process, pid, pgid, procs>>]_vars

\* kill() has run on a provisioner whose process an earlier wait() has reaped
C1_Witness ==
    /\ last.op = "kill"
    /\ last.held = None
    /\ Len(procs) >= 1
    /\ procs[1].reaped

\* C2: has_process is true exactly when the provisioner holds a handle that wait()
\* has not reaped; it becomes true only by a launch_kernel that returns, false only
\* by a wait() that returns, and a returning launch_kernel always leaves it true.
C2_HasProcessIffHeld ==
    /\ [](has_process <=> Held)
    /\ [][/\ ((~has_process /\ has_process')
               => (last'.op = "provisioner.launch_kernel" /\ last'.exc = "none"))
           /\ ((has_process /\ ~has_process')
               => (last'.op = "wait" /\ last'.exc = "none"))
           /\ ((last'.op = "provisioner.launch_kernel" /\ last'.exc = "none")
               => has_process')
           /\ ((last'.op \in {"kill", "terminate", "poll", "send_signal", "pre_launch",
                              "cleanup"})
               => (has_process' <=> has_process))]_vars

\* kill() has run while the held child had already exited, and the handle is kept
C2_Witness ==
    /\ last.op = "kill"
    /\ has_process
    /\ procs[process].state = "exited"

\* C3: when wait() returns on a provisioner that held a process, has_process is
\* false; cleanup() never raises, also right after that wait().
C3_AfterWait ==
    /\ ((last.op = "wait" /\ last.held # None /\ last.exc = "none") => ~has_process)
    /\ (last.op = "cleanup" => (last.exc = "none" /\ last.held = process))

\* wait() has returned on a provisioner that held a process
C3_Witness ==
    /\ last.op = "wait"
    /\ last.held # None
    /\ last.exc = "none"
    /\ procs[last.held].reaped

\* The children launched by the provisioner that are running and not reaped
LiveChildren == {h \in DOMAIN procs : procs[h].state = "running" /\ ~procs[h].reaped}

\* C4 (as claimed): there is never more than one live child that the provisioner
\* launched and has not reaped.
C4_AtMostOneLiveChild == Cardinality(LiveChildren) <= 1

\* C5: with a process held, poll() returns None while the child runs and the
\* child's exit status once it has exited; wait() returns that same status.
C5_ExitCodeUnchanged ==
    /\ (last.op = "poll" /\ last.held # None)
         => /\ (procs[last.held].state = "running" => last.ret = <<>>)
            /\ (procs[last.held].state = "exited"
                 => (last.ret # <<>> /\ last.ret = procs[last.held].returncode))
    /\ (last.op = "wait" /\ last.held # None /\ last.exc = "none")
         => /\ procs[last.held].state = "exited"
            /\ last.ret # <<>>
            /\ last.ret = procs[last.held].returncode

\* poll() has reported a non-zero exit status of the held child
C5_Witness ==
    /\ last.op = "poll"
    /\ last.held # None
    /\ last.ret = <<1>>

\* C9: pre_launch saves the full keyword set, extra_arguments included; no other
\* operation (kill, terminate, wait, launch_kernel, ...) changes the saved
\* arguments; the configuration values stay those set at construction; and a
\* launch_kernel that returns leaves has_process true.
C9_SavedArgsPersist ==
    /\ [](config_var_1 = 42 /\ config_var_2 = "custom_provisioner")
    /\ [][/\ (last'.op = "pre_launch" => launch_args' = last'.kwargs)
          /\ (last'.op # "pre_launch" => launch_args' = launch_args)
          /\ ((last'.op = "provisioner.launch_kernel" /\ last'.exc = "none")
               => has_process')]_vars

\* A second process has been launched with the saved arguments (less the popped
\* extra_arguments) after the first one was reaped
C9_Witness ==
    /\ last.op = "provisioner.launch_kernel"
    /\ last.exc = "none"
    /\ Len(procs) = 2
    /\ procs[1].reaped
    /\ has_process
    /\ "extra_arguments" \in DOMAIN launch_args
    /\ last.kwargs = DelItem(launch_args, "extra_arguments")

\* C21: once wait() has reaped the provisioner's process and until launch_kernel
\* returns a new one, the provisioner holds no process, and every poll() and
\* wait() returns 0 without raising, also when the reaped child had exited with a
\* non-zero status; the reaping wait() itself is the last call to return the real
\* status.
C21_ZeroAfterReap ==
    /\ [][(last'.op = "wait" /\ last'.held # None /\ last'.exc = "none")
            => /\ last'.ret = procs[last'.held].returncode
               /\ procs'[last'.held].reaped
               /\ process' = None]_vars
    /\ [][(process = None /\ process' # None)
            => (last'.op = "provisioner.launch_kernel" /\ last'.exc = "none")]_vars
    /\ []((/\ last.op \in {"poll", "wait"}
            /\ last.held = None
            /\ \E h \in DOMAIN procs : procs[h].reaped)
            => (last.exc = "none" /\ last.ret = <<0>>))

\* poll() has returned 0 after the reaping of a child that had exited with 1
C21_Witness ==
    /\ last.op = "poll"
    /\ last.held = None
    /\ last.ret = <<0>>
    /\ Len(procs) = 1
    /\ procs[1].reaped
    /\ procs[1].returncode = <<1>>

\* C17: on POSIX, send_signal with a process held and a known process-group id
\* tries the group first, with the group id of the held process, and after a
\* successful group delivery signals nothing else; the single process is signalled
\* only when the group id is unknown or the group delivery failed; a failed group
\* delivery is not raised; an error is raised only when the per-process delivery
\* itself failed.
C17_GroupFirstThenProcess ==
    (last.op = "send_signal" /\ platform = "posix" /\ last.held # None)
      => LET v == last.via
         IN  /\ (pgid # None
                   => /\ pgid = getpgid(PidOf(last.held))
                      /\ Len(v) >= 1
                      /\ v[1] = [how |-> "killpg", target |-> pgid, sig |-> last.signum,
                                 ok |-> v[1].ok]
                      /\ (v[1].ok => (Len(v) = 1 /\ last.exc = "none")))
             /\ (\A i \in DOMAIN v :
                    v[i].how = "process"
                      => /\ v[i].target = PidOf(last.held)
                         /\ v[i].sig = last.signum
                         /\ (pgid = None \/ (i = 2 /\ ~v[1].ok)))
             /\ (\A i \in DOMAIN v : v[i].how \in {"killpg", "process"})
             /\ (last.exc # "none"
                   <=> (\E i \in DOMAIN v : v[i].how = "process" /\ ~v[i].ok))

\* A failed group delivery has been followed by a successful per-process delivery
C17_Witness ==
    /\ last.op = "send_signal"
    /\ platform = "posix"
    /\ Len(last.via) = 2
    /\ last.via[1].how = "killpg"
    /\ ~last.via[1].ok
    /\ last.via[2].how = "process"
    /\ last.via[2].ok
    /\ last.exc = "none"

\* C18: on win32, a launch that returns has created an interrupt event no earlier
\* launch created, has put its handle in the child's environment under
\* JPY_INTERRUPT_EVENT and IPY_INTERRUPT_EVENT alike, and has attached it to the
\* returned process; send_signal(SIGINT) with a process held sets exactly the event
\* attached to that process and sends no native signal.
C18_Win32InterruptToken ==
    platform = "win32"
      => /\ \A h \in DOMAIN procs :
               /\ procs[h].win32_interrupt_event # None
               /\ \A g \in DOMAIN procs :
                     (g # h => procs[g].win32_interrupt_event # procs[h].win32_interrupt_event)
         /\ ((last.op = "provisioner.launch_kernel" /\ last.exc = "none")
               => LET env == last.res.kwargs["env"]
                  IN  /\ last.res.interrupt_event # None
                      /\ {"JPY_INTERRUPT_EVENT", "IPY_INTERRUPT_EVENT"} \subseteq DOMAIN env
                      /\ env["JPY_INTERRUPT_EVENT"] = ToString(last.res.interrupt_event)
                      /\ env["IPY_INTERRUPT_EVENT"] = env["JPY_INTERRUPT_EVENT"]
                      /\ procs[process].win32_interrupt_event = last.res.interrupt_event)
         /\ ((last.op = "send_signal" /\ last.signum = "SIGINT" /\ last.held # None)
               => /\ last.via = <<[how |-> "event",
                                   target |-> procs[last.held].win32_interrupt_event,
                                   sig |-> "SIGINT", ok |-> TRUE]>>
                  /\ last.exc = "none")

\* SIGINT has been sent to the second process launched on win32
C18_Witness ==
    /\ platform = "win32"
    /\ last.op = "send_signal"
    /\ last.signum = "SIGINT"
    /\ last.held = 2
    /\ last.via[1].how = "event"
    /\ last.via[1].target # procs[1].win32_interrupt_event

\* C20: a wait() that suspends, and the discarding of a suspended wait(), change
\* nothing but the position of the waiting task: the children, the held process
\* (has_process stays true, its streams stay open), pid, pgid and the saved
\* arguments are as before, and after the discarding the task is where it was
\* before it called wait(); kill and terminate do not drop the handle either; the
\* streams of a held process are closed by a returning wait() only.
C20_AbandonedWaitNoEffect ==
    /\ [][(last'.op \in {"wait_sleep", "wait_cancel"})
            => /\ UNCHANGED <<launcher_vars, process, pid, pgid, launch_args,
                              connection_info, config_var_1, config_var_2>>
               /\ has_process'
               /\ procs'[process'].stdout # "closed"
               /\ ~procs'[process'].reaped
               /\ (last'.op = "wait_cancel" => waitpc'[last'.task] = "idle")]_vars
    /\ [][(last'.op \in {"kill", "terminate"}) => UNCHANGED <<procs, prov_vars>>]_vars
    /\ [][(procs' # procs /\ last'.op \notin {"wait", "child_exit"})
            => (last'.op = "provisioner.launch_kernel" /\ Len(procs') = Len(procs) + 1)]_vars

\* A wait() on a running child has been abandoned
C20_Witness ==
    /\ last.op = "wait_cancel"
    /\ has_process
    /\ procs[process].state = "running"
    /\ procs[process].stdout = "open"

(***************************************************************************)
(* Properties of the launcher (LauncherSpec)                               *)
(***************************************************************************)
LaunchOps == {"launch_kernel", "async_launch_kernel"}

\* C6: a launch without stdin spawns the child with a pipe as stdin and, when the
\* spawn succeeds, returns with the parent's end of that pipe closed; a stdin the
\* caller supplies is passed to the spawn as it is and is not closed.
C6_StdinPipeClosed ==
    last.op \in LaunchOps
      => /\ (last.args.stdin = "None"
               => /\ last.res.kwargs["stdin"] = "PIPE"
                  /\ (last.res.outcome = "return" => procs[last.h].stdin = "closed"))
         /\ (last.args.stdin # "None"
               => /\ last.res.kwargs["stdin"] = last.args.stdin
                  /\ (last.res.outcome = "return"
                        => procs[last.h].stdin
                             = (IF last.args.stdin = "PIPE" THEN "open" ELSE "None")))

\* A launch without stdin has returned a process
C6_Witness ==
    /\ last.op \in LaunchOps
    /\ last.args.stdin = "None"
    /\ last.res.outcome = "return"
    /\ procs[last.h].stdin = "closed"

\* The value that identifies the launching process to the child
ParentId(res) ==
    IF platform = "win32" THEN ToString(res.parent_handle) ELSE ToString(parent_pid)

\* C7 (as claimed): the child of a launch with independent=False gets the parent's
\* identifying value in JPY_PARENT_PID, and the child of a launch with
\* independent=True gets no JPY_PARENT_PID at all.
C7_ParentIdOnlyIfDependent ==
    (last.op \in LaunchOps /\ last.res.outcome = "return")
      => /\ (~last.args.independent
               => /\ "JPY_PARENT_PID" \in DOMAIN last.res.kwargs["env"]
                  /\ last.res.kwargs["env"]["JPY_PARENT_PID"] = ParentId(last.res))
         /\ (last.args.independent
               => "JPY_PARENT_PID" \notin DOMAIN last.res.kwargs["env"])

\* C8 (as claimed): a launch whose spawn fails logs one diagnostic and raises the
\* spawn error itself, and returns no process handle.
C8_SpawnFailureLoggedAndRaised ==
    (last.op \in LaunchOps /\ last.res.outcome # "return")
      => /\ Len(last.res.logged) = 1
         /\ last.res.exc = "SpawnError"
         /\ last.h = None
         /\ last.res.proc = <<>>

\* C15: whichever of launch_kernel and async_launch_kernel is called, in whatever
\* state and with whatever launch specification, the other one called instead
\* would have prepared the same spawn arguments (stdio, environment, working
\* directory, isolation flags), returned the same process state (the substituted
\* stdin closed in the same cases), left the same caller state, and on a failing
\* spawn logged and raised the same.
C15_SyncAsyncSame ==
    [][(last'.op \in LaunchOps)
         => LET spawn_ok == last'.res.outcome = "return"
            IN  /\ last'.res = launch_kernel(last'.args, spawn_ok)
                /\ last'.res = async_launch_kernel(last'.args, spawn_ok)]_vars

\* async_launch_kernel has failed to spawn with a caller's env, after another launch
C15_Witness ==
    /\ last.op = "async_launch_kernel"
    /\ last.res.outcome = "raise"
    /\ last.args.env = "user"
    /\ Len(last.res.logged) = 1
    /\ ncalls = 2

\* C16 (as claimed): a launch leaves os.environ and the mapping the caller passed
\* as env exactly as they were before the call.
C16_CallerEnvUnchanged ==
    [][(last'.op \in LaunchOps) => (os_environ' = os_environ /\ user_env' = user_env)]_vars

(***************************************************************************)
(* The factory and its callers (FactorySpec)                               *)
(***************************************************************************)
ProvisionerNames ==
    (DOMAIN initial_provisioner_map) \cup {"new-test-provisioner", "missing-provisioner"}

\* The config blocks of the kernel specs that build_kernelspec writes
ProvisionerConfigs == {EmptyDict, [config_var_1 |-> 42, config_var_2 |-> "custom_provisioner"]}

FactoryNext ==
    \/ \E name \in ProvisionerNames, config \in ProvisionerConfigs :
          GetProvisioner(name, config) /\ UNCHANGED manager_vars
    \/ \E name \in ProvisionerNames : RegisterLate(name) /\ UNCHANGED manager_vars
    \/ \E name \in ProvisionerNames : SetDefaultName(name) /\ UNCHANGED manager_vars
    \/ \E k \in KernelNames : GetKernelSpec(k) /\ UNCHANGED manager_vars
    \/ GetAllSpecs /\ UNCHANGED manager_vars
    \/ \E k \in KernelNames : CreateProvisionerInstance(k) /\ UNCHANGED manager_vars

FactorySpec == Init /\ [][FactoryNext]_vars

\* C10: a get_provisioner call that resolves its name returns an instance that
\* did not exist before the call, of the constructor registered under the name
\* and holding the config passed in, and leaves every earlier instance as it was.
C10_NewInstanceEachCall ==
    [][(last'.op = "get_provisioner" /\ last'.exc = "none")
         => /\ last'.ret \notin DOMAIN instances
            /\ last'.ret \in DOMAIN instances'
            /\ instances'[last'.ret].type = mock_get_provisioner(last'.name)[1]
            /\ instances'[last'.ret].config = last'.config
            /\ \A i \in DOMAIN instances : instances'[i] = instances[i]]_vars

\* Two calls for the same name have returned two instances
C10_Witness ==
    /\ last.op = "get_provisioner"
    /\ last.exc = "none"
    /\ last.ret = 2
    /\ instances[1].type = instances[2].type

\* The name is neither discovered, nor cached, nor registered at this moment
Unresolvable(name) ==
    /\ name \notin DOMAIN initial_provisioner_map
    /\ name \notin DOMAIN provisioners
    /\ ~(name \in registered /\ mock_get_provisioner(name) # <<>>)

\* C11: get_provisioner for a name that is neither in the cache nor registered at
\* that moment fails with "no such provisioner" and creates nothing; for a name
\* the cache lacks but that has been registered since, it succeeds with the
\* registered constructor and the name is cached from then on; and no step ever
\* removes or changes an entry of the discovery cache.
C11_LateRegistration ==
    /\ [][(last'.op = "get_provisioner" /\ Unresolvable(last'.name))
            => /\ last'.exc = "NoSuchProvisioner"
               /\ last'.ret = None
               /\ instances' = instances]_vars
    /\ [][(/\ last'.op = "get_provisioner"
            /\ last'.name \notin DOMAIN initial_provisioner_map
            /\ last'.name \in registered)
            => /\ last'.exc = "none"
               /\ instances'[last'.ret].type = mock_get_provisioner(last'.name)[1]
               /\ last'.name \in DOMAIN provisioners'
               /\ provisioners'[last'.name] = mock_get_provisioner(last'.name)[1]]_vars
    /\ [][/\ (discovered
               => \A n \in DOMAIN provisioners :
                     n \in DOMAIN provisioners' /\ provisioners'[n] = provisioners[n])
          /\ (discovered'
               => \A n \in DOMAIN initial_provisioner_map :
                     n \in DOMAIN provisioners'
                     /\ provisioners'[n] = initial_provisioner_map[n])]_vars

\* A late-registered name has been resolved by a fresh lookup, after another
\* provisioner had been created from the discovery cache
C11_Witness ==
    /\ last.op = "get_provisioner"
    /\ last.name = "new-test-provisioner"
    /\ last.exc = "none"
    /\ last.ret = 2
    /\ instances[1].type = initial_provisioner_map["custom-test-provisioner"]
    /\ DOMAIN provisioners = (DOMAIN initial_provisioner_map) \cup {"new-test-provisioner"}

\* The provisioner name of kernel spec k cannot be resolved at this moment
KernelUnresolvable(k) == Unresolvable(provisioner_name_of(k))

\* C13: a kernel spec whose provisioner name cannot be resolved is not in the
\* result of get_all_specs (every other spec is); get_kernel_spec for it raises
\* NoSuchKernel; start_kernel for it raises NoSuchKernel, creates no provisioner
\* and starts no process; none of the three ever raises the registry's own error.
C13_NoSuchKernel ==
    /\ [][(last'.op = "get_all_specs")
            => /\ last'.exc = "none"
               /\ last'.ret = {k \in KernelNames : ~KernelUnresolvable(k)}]_vars
    /\ [][(last'.op = "get_kernel_spec")
            => /\ (KernelUnresolvable(last'.kernel)
                     => (last'.exc = "NoSuchKernel" /\ last'.ret = <<>>))
               /\ (~KernelUnresolvable(last'.kernel)
                     => (last'.exc = "none" /\ last'.ret = <<KernelSpecs[last'.kernel]>>))]_vars
    /\ [][(last'.op = "create_provisioner_instance")
            => /\ (KernelUnresolvable(last'.kernel)
                     => /\ last'.exc = "NoSuchKernel"
                        /\ last'.ret = None
                        /\ instances' = instances
                        /\ UNCHANGED <<procs, process, pid, pgid>>)
               /\ (~KernelUnresolvable(last'.kernel) => last'.exc = "none")]_vars
    /\ [](last.op \in {"get_all_specs", "get_kernel_spec", "create_provisioner_instance"}
            => last.exc # "NoSuchProvisioner")

\* start_kernel for the kernel spec that names a missing provisioner has raised
\* NoSuchKernel
C13_Witness ==
    /\ last.op = "create_provisioner_instance"
    /\ last.kernel = "missing_provisioner"
    /\ last.exc = "NoSuchKernel"
    /\ instances = <<>>
    /\ process = None

\* C14: the provisioner created for a kernel spec without a provisioner block is
\* an instance of the constructor registered under the factory's default name at
\* that moment, and its configurable attributes have the constructor's defaults
\* (0 and "" for the test provisioners, none at all for the local provisioner);
\* the default name is the local provisioner's until it is set.
C14_DefaultProvisioner ==
    /\ [][(/\ last'.op = "create_provisioner_instance"
            /\ last'.exc = "none"
            /\ KernelSpecs[last'.kernel].provisioner_name = <<>>)
            => /\ last'.name = default_provisioner_name
               /\ instances'[last'.ret].type = mock_get_provisioner(default_provisioner_name)[1]
               /\ instances'[last'.ret].config = EmptyDict
               /\ instances'[last'.ret].attrs =
                    (IF default_provisioner_name = "local-provisioner"
                     THEN EmptyDict
                     ELSE [config_var_1 |-> 0, config_var_2 |-> ""])]_vars
    /\ [][(default_provisioner_name' # default_provisioner_name)
            => (last'.op = "set_default_name"
                /\ default_provisioner_name' = last'.name)]_vars
    /\ [](last.op = "init" => default_provisioner_name = "local-provisioner")

\* With the default name changed to the custom provisioner, a provisioner has
\* been created for the kernel spec that has no provisioner block
C14_Witness ==
    /\ last.op = "create_provisioner_instance"
    /\ last.kernel = "no_provisioner"
    /\ last.exc = "none"
    /\ default_provisioner_name = "custom-test-provisioner"
    /\ instances[last.ret].type = "tests.test_provisioning:CustomTestProvisioner"
    /\ instances[last.ret].attrs["config_var_1"] = 0

(***************************************************************************)
(* The factory used by concurrent tasks (ConcurrentFactorySpec)            *)
(***************************************************************************)
ConcurrentFactoryNext ==
    \/ \E t \in FactoryTasks : Enter(t) /\ UNCHANGED manager_vars
    \/ \E t \in FactoryTasks : Acquire(t) /\ UNCHANGED manager_vars
    \/ \E t \in FactoryTasks : Recheck(t) /\ UNCHANGED manager_vars
    \/ \E t \in FactoryTasks : Populate(t) /\ UNCHANGED manager_vars
    \/ \E t \in FactoryTasks, name \in ProvisionerNames, config \in ProvisionerConfigs :
          Lookup(t, name, config) /\ UNCHANGED manager_vars
    \/ \E name \in ProvisionerNames : RegisterLate(name) /\ UNCHANGED manager_vars

ConcurrentFactorySpec == Init /\ [][ConcurrentFactoryNext]_vars

\* C12: the discovery pass runs at most once, however the tasks that first use
\* the factory interleave; a task is past the initialization only when the cache
\* is populated; once populated, the cache keeps every entry it has, so that every
\* lookup of a discovered name, by any task, gives the discovered constructor.
C12_DiscoveryOnce ==
    /\ [](ndiscover <= 1)
    /\ [](discovered <=> ndiscover = 1)
    /\ [](\A t \in FactoryTasks : fpc[t] = "ready" => discovered)
    /\ [](discovered
            => \A n \in DOMAIN initial_provisioner_map :
                  n \in DOMAIN provisioners /\ provisioners[n] = initial_provisioner_map[n])
    /\ [][discovered
            => \A n \in DOMAIN provisioners :
                  n \in DOMAIN provisioners' /\ provisioners'[n] = provisioners[n]]_vars
    /\ [][(last'.op = "get_provisioner" /\ last'.name \in DOMAIN initial_provisioner_map)
            => /\ last'.exc = "none"
               /\ instances'[last'.ret].type = initial_provisioner_map[last'.name]]_vars

\* A task that found the cache empty on entry has taken the guard and found the
\* cache populated by the other task
C12_Witness ==
    /\ last.op = "recheck"
    /\ last.found
    /\ ndiscover = 1
    /\ \A t \in FactoryTasks : fpc[t] = "ready"

(***************************************************************************)
(* Restart driven by the kernel manager (RestartSpec)                      *)
(***************************************************************************)
RestartNext ==
    \/ \E kwargs \in PreLaunchKwargs : KmStartPreLaunch(kwargs)
    \/ \E spawn_ok, getpgid_ok \in BOOLEAN : KmStartLaunch(spawn_ok, getpgid_ok)
    \/ KmIsAlive
    \/ \E os_ok \in BOOLEAN : RestartStop(os_ok)
    \/ \E t \in Waiters : RestartAwait(t)
    \/ RestartPreLaunch
    \/ \E spawn_ok, getpgid_ok \in BOOLEAN : RestartLaunch(spawn_ok, getpgid_ok)
    \/ \E h \in 1..MaxLaunch, c \in ExitCodes : ChildExit(h, c) /\ UNCHANGED manager_vars

RestartSpec == Init /\ [][RestartNext]_vars

\* C19: a restart goes through kill, then a wait() that returns, then pre_launch
\* with the saved arguments, then launch_kernel, and through nothing else in
\* between; when its launch_kernel is called the provisioner holds no process and
\* every child launched before has exited and been reaped; after a restart that
\* completes the provisioner holds a running process and the saved arguments
\* are those saved at the start.
C19_RestartOrder ==
    /\ [][(km_pc \in {"up", "r_await", "r_pre_launch", "r_launch"} /\ km_pc' # km_pc)
            => \/ /\ km_pc = "up" /\ km_pc' = "r_await"
                  /\ last'.op = "kill" /\ last'.restart /\ last'.exc = "none"
               \/ /\ km_pc = "r_await" /\ km_pc' = "r_pre_launch"
                  /\ last'.op = "wait" /\ last'.exc = "none"
                  /\ ~has_process'
               \/ /\ km_pc = "r_pre_launch" /\ km_pc' = "r_launch"
                  /\ last'.op = "pre_launch" /\ last'.kwargs = launch_args
                  /\ launch_args' = launch_args
               \/ /\ km_pc = "r_launch" /\ km_pc' \in {"up", "failed"}
                  /\ last'.op = "provisioner.launch_kernel"
                  /\ (km_pc' = "up" <=> last'.exc = "none")]_vars
    /\ [][(km_pc = "r_launch" /\ last'.op = "provisioner.launch_kernel")
            => /\ process = None
               /\ \A h \in DOMAIN procs : procs[h].state = "exited" /\ procs[h].reaped
               /\ last'.kwargs = DelItem(launch_args, "extra_arguments")]_vars
    /\ [][(km_pc = "r_launch" /\ km_pc' = "up")
            => /\ has_process'
               /\ procs'[process'].state = "running"
               /\ Cardinality({h \in DOMAIN procs' : procs'[h].state = "running"}) = 1
               /\ launch_args' = launch_args]_vars
    /\ [](km_pc \in {"r_pre_launch", "r_launch"} => ~has_process)

\* A restart has completed: the first child was killed and reaped, the second runs
C19_Witness ==
    /\ km_pc = "up"
    /\ last.op = "provisioner.launch_kernel"
    /\ Len(procs) = 2
    /\ procs[1].reaped
    /\ procs[2].state = "running"
    /\ process = 2
    /\ "extra_arguments" \in DOMAIN launch_args

====
